---- MODULE Spec2Model ----
(***************************************************************************)
(* Offer lifecycle and analysis-record store of Job Set & Match!           *)
(*                                                                         *)
(*   - the Analysis Ledger   (src/helpers/data_handler.py, DataHandler)    *)
(*   - the Offer File Manager (src/app/core/file_manager.py, FileManager)  *)
(*   - forget_offer           (src/app.py), which uses both                *)
(*   - analyze_new_offers     (src/app.py), the loop over the listed offers*)
(*                                                                         *)
(* Costs are counted in units of TOKEN_COST (one output token), so every   *)
(* cost the analyzer produces is a natural number of units.  Time is in    *)
(* seconds.  Each handler is one action; what the environment decides (an  *)
(* I/O error, the size of a re-encoded PDF) is an input of the action.     *)
(***************************************************************************)
EXTENDS Integers, Sequences, FiniteSets, TLC

VARIABLES
    data,     \* DataHandler.data, the in-memory document
    disk,     \* the backing JSON file
    ledger,   \* "none" before DataHandler(...) ran, then "fresh", "loaded" or "raised"
    files,    \* the PDF files of the three stage directories
    seen,     \* per logical offer, the stages one of its files has been in (history)
    nextOffer,\* number of offers dropped into new so far
    now,      \* the clock, in seconds
    call,     \* the last call: operation, arguments and returned value
    run,      \* analyze_new_offers: the offers listed, those left, the calls made
    peer,     \* a second DataHandler on the same backing file: its document
    par       \* analyze_pdfs_parallel: semaphore, tasks and their results

vars == <<data, disk, ledger, files, seen, nextOffer, now, call, run, peer, par>>

----------------------------------------------------------------------------
(* Bounds of the model *)

MaxTokens == 2      \* largest cost of one call, in units of TOKEN_COST
MaxRecords == 2     \* records appended to the ledger by one instance
MaxBatches == 2     \* batches in the document
MaxRequests == 2    \* calls counted by requests_count
MaxClock == 1       \* seconds the clock advances
MaxOffers == 2      \* logical offers
MaxPrefix == 1      \* "compressed_" prefixes of a name that is compressed again
MaxCalls == 2       \* calls each of two ledger instances makes
MaxFiles == 3       \* files handed to analyze_pdfs_parallel

(* Program constants *)

MAX_FILE_SIZE_MB == 10
CLEANUP_DAYS == 30
DefaultMaxConcurrent == 3

----------------------------------------------------------------------------
(* Values *)

\* analysis.get("analysis_cost", 0.0): the key may be absent, and a caller
\* may pass a value that is not a number.
CostNum(v) == [has |-> TRUE, num |-> TRUE, v |-> v]
CostAbsent == [has |-> FALSE, num |-> FALSE, v |-> 0]
CostBad == [has |-> TRUE, num |-> FALSE, v |-> 0]
CostVals == {CostNum(v) : v \in 1..MaxTokens} \cup {CostAbsent, CostBad}

\* File names.  pre counts the "compressed_" prefixes; a standardized name
\* is {co}_{po}_{ts}.pdf, any other name is the dropped file's name id.
Name(pre, std, id, co, po, ts) ==
    [pre |-> pre, std |-> std, id |-> id, co |-> co, po |-> po, ts |-> ts]
OrigName(i) == Name(0, FALSE, i, <<>>, <<>>, 0)
NoName == Name(0, FALSE, 0, <<>>, <<>>, 0)

\* The cover letter of a record: None, or the letter with its generation
\* cost (content and generated_at are not read by the ledger).
NoLetter == [has |-> FALSE, generation_cost |-> 0]
Letter(g) == [has |-> TRUE, generation_cost |-> g]

\* An analysis record, as far as the ledger, forget_offer and
\* generate_cover_letter read it.
Record(fn, c) ==
    [file_name |-> fn, analysis_cost |-> c, forget |-> FALSE, cover_letter |-> NoLetter]

----------------------------------------------------------------------------
(* Analysis Ledger: src/helpers/data_handler.py *)

Batch(t) == [timestamp |-> t, offers |-> <<>>]

initialize_data(t) ==
    [timestamp |-> t,
     analyses |-> <<Batch(t)>>,
     api_usage |-> [total_cost |-> 0, analysis_costs |-> 0,
                    cover_letter_costs |-> 0, requests_count |-> 0]]

\* The backing file: absent, or text that is not JSON (json.JSONDecodeError),
\* or bytes that cannot be decoded or read (UnicodeDecodeError, OSError), or
\* a JSON document.
NoDoc == [timestamp |-> 0, analyses |-> <<>>,
          api_usage |-> [total_cost |-> 0, analysis_costs |-> 0,
                         cover_letter_costs |-> 0, requests_count |-> 0]]
AbsentFile == [kind |-> "absent", doc |-> NoDoc]
MalformedFile == [kind |-> "malformed", doc |-> NoDoc]
UnreadableFile == [kind |-> "unreadable", doc |-> NoDoc]
DocFile(d) == [kind |-> "doc", doc |-> d]

\* _load_or_initialize: only json.JSONDecodeError is caught; any other
\* exception of open() or json.load() leaves the constructor.
load_or_initialize(file, t) ==
    IF file.kind = "absent" THEN [raised |-> FALSE, fresh |-> TRUE, data |-> initialize_data(t)]
    ELSE IF file.kind = "malformed" THEN [raised |-> FALSE, fresh |-> TRUE, data |-> initialize_data(t)]
    ELSE IF file.kind = "unreadable" THEN [raised |-> TRUE, fresh |-> FALSE, data |-> NoDoc]
    ELSE [raised |-> FALSE, fresh |-> FALSE, data |-> file.doc]

\* Mutant of save: the error is swallowed and True returned.
save_SwallowsError(d, file, io) ==
    IF io = "ok" THEN [disk |-> DocFile(d), ret |-> TRUE]
    ELSE IF io = "open_fails" THEN [disk |-> file, ret |-> TRUE]
    ELSE [disk |-> MalformedFile, ret |-> TRUE]

\* save: io is what the file system does: "ok", "open_fails" (open(...,'w')
\* raises, the file is untouched) or "dump_fails" (the file was truncated by
\* open and json.dump raises part-way: what is left is not JSON).
IoSave == {"ok", "open_fails", "dump_fails"}
save(d, file, io) ==
    IF io = "ok" THEN [disk |-> DocFile(d), ret |-> TRUE]
    ELSE IF io = "open_fails" THEN [disk |-> file, ret |-> FALSE]
    ELSE [disk |-> MalformedFile, ret |-> FALSE]

\* Mutant of AppendToLastBatch: the record opens a batch of its own.
AppendAsNewBatch(analyses, analysis) ==
    Append(analyses, [timestamp |-> 0, offers |-> <<analysis>>])

\* self.data["analyses"][-1]["offers"].append(analysis)
AppendToLastBatch(analyses, analysis) ==
    [analyses EXCEPT ![Len(analyses)].offers = Append(@, analysis)]

\* Mutant of BumpAnalysisUsage: total_cost is not updated.
BumpAnalysisUsage_NoTotal(usage, c) ==
    [usage EXCEPT !.analysis_costs = @ + c,
                  !.requests_count = @ + 1]

\* the three += of add_analysis, for a numeric (or defaulted) cost c
BumpAnalysisUsage(usage, c) ==
    [usage EXCEPT !.analysis_costs = @ + c,
                  !.total_cost = @ + c,
                  !.requests_count = @ + 1]

\* Mutant of BumpCoverLetterUsage: the cost goes to the analysis bucket.
BumpCoverLetterUsage_WrongBucket(usage, c) ==
    [usage EXCEPT !.analysis_costs = @ + c,
                  !.total_cost = @ + c,
                  !.requests_count = @ + 1]

\* the three += of add_cover_letter_cost, for a numeric cost c
BumpCoverLetterUsage(usage, c) ==
    [usage EXCEPT !.cover_letter_costs = @ + c,
                  !.total_cost = @ + c,
                  !.requests_count = @ + 1]

\* analysis.get("analysis_cost", 0.0)
GetCost(analysis) ==
    IF analysis.analysis_cost.has THEN analysis.analysis_cost.v ELSE 0

\* Mutant of add_analysis: the document is changed only when save() succeeded.
add_analysis_Transactional(d, file, analysis, io, t) ==
    IF Len(d.analyses) = 0
    THEN [data |-> d, disk |-> file, ret |-> FALSE, saved |-> FALSE, appended |-> FALSE]
    ELSE LET d1 == [d EXCEPT !.analyses = AppendToLastBatch(@, analysis)] IN
         IF analysis.analysis_cost.has /\ ~analysis.analysis_cost.num
         THEN [data |-> d1, disk |-> file, ret |-> FALSE, saved |-> FALSE, appended |-> TRUE]
         ELSE LET d2 == [d1 EXCEPT !.api_usage = BumpAnalysisUsage(@, GetCost(analysis)),
                                   !.timestamp = t]
                  s == save(d2, file, io)
              IN [data |-> IF s.ret THEN d2 ELSE d, disk |-> s.disk, ret |-> s.ret,
                  saved |-> TRUE, appended |-> s.ret]

\* add_analysis: result of the call on document d.
\*   no batch:          [-1] raises IndexError, nothing was changed
\*   non-numeric cost:  the record is appended, then += raises TypeError
\*   otherwise:         record, costs, counter, timestamp, then save()
add_analysis(d, file, analysis, io, t) ==
    IF Len(d.analyses) = 0
    THEN [data |-> d, disk |-> file, ret |-> FALSE, saved |-> FALSE, appended |-> FALSE]
    ELSE LET d1 == [d EXCEPT !.analyses = AppendToLastBatch(@, analysis)] IN
         IF analysis.analysis_cost.has /\ ~analysis.analysis_cost.num
         THEN [data |-> d1, disk |-> file, ret |-> FALSE, saved |-> FALSE, appended |-> TRUE]
         ELSE LET d2 == [d1 EXCEPT !.api_usage = BumpAnalysisUsage(@, GetCost(analysis)),
                                   !.timestamp = t]
                  s == save(d2, file, io)
              IN [data |-> d2, disk |-> s.disk, ret |-> s.ret, saved |-> TRUE, appended |-> TRUE]

\* add_cover_letter_cost: a non-numeric cost raises TypeError at the first +=
add_cover_letter_cost(d, file, cost, io, t) ==
    IF ~(cost.has /\ cost.num)
    THEN [data |-> d, disk |-> file, ret |-> FALSE, saved |-> FALSE]
    ELSE LET d2 == [d EXCEPT !.api_usage = BumpCoverLetterUsage(@, cost.v),
                             !.timestamp = t]
             s == save(d2, file, io)
         IN [data |-> d2, disk |-> s.disk, ret |-> s.ret, saved |-> TRUE]

\* get_all_analyses: the last batch's offers, [] when there is no batch
get_all_analyses(d) ==
    IF Len(d.analyses) = 0 THEN <<>> ELSE d.analyses[Len(d.analyses)].offers

\* get_analysis: first record of the last batch with that file name.  The
\* result is [found, rec]; found = FALSE is None (also on IndexError).
get_analysis(d, file_name) ==
    LET offers == get_all_analyses(d)
        hits == {i \in 1..Len(offers) : offers[i].file_name = file_name}
    IN IF hits = {} THEN [found |-> FALSE, rec |-> Record(file_name, CostAbsent)]
       ELSE [found |-> TRUE,
             rec |-> offers[CHOOSE i \in hits : \A j \in hits : i <= j]]

\* get_api_usage
get_api_usage(d) == d.api_usage

\* Mutant of NewBatch: the earlier batches are dropped ("start fresh").
NewBatch_Purge(analyses, t) == <<Batch(t)>>

\* self.data["analyses"].append({"timestamp": ..., "offers": []})
NewBatch(analyses, t) == Append(analyses, Batch(t))

\* clear_analyses(batch): with batch = "last" the code calls .append on the
\* last batch, which is a dict (AttributeError), or indexes an empty list
\* (IndexError); both are caught and nothing was changed.
BatchArgs == {"all", "last"}
clear_analyses(d, file, batch, io, t) ==
    IF batch = "last"
    THEN [data |-> d, disk |-> file, ret |-> FALSE, saved |-> FALSE]
    ELSE LET d2 == [d EXCEPT !.analyses = NewBatch(@, t), !.timestamp = t]
             s == save(d2, file, io)
         IN [data |-> d2, disk |-> s.disk, ret |-> s.ret, saved |-> TRUE]

----------------------------------------------------------------------------
(* Offer File Manager: src/app/core/file_manager.py *)

\* A file is [dir, name, offer, size, mtime]: offer is the logical offer
\* whose pages it holds, size is in bytes, mtime in seconds.
Dirs == {"new", "in_progress", "archived"}
File(dir, name, offer, size, mtime) ==
    [dir |-> dir, name |-> name, offer |-> offer, size |-> size, mtime |-> mtime]

Exists(fs, dir, name) == \E f \in fs : f.dir = dir /\ f.name = name
At(fs, dir, name) == CHOOSE f \in fs : f.dir = dir /\ f.name = name
InDir(fs, dir) == {f \in fs : f.dir = dir}

\* Writing or renaming to dir/name replaces whatever file is there.
Without(fs, dir, name) == {f \in fs : ~(f.dir = dir /\ f.name = name)}

\* get_new_offers: the *.pdf files of new (every modelled name ends in .pdf)
get_new_offers(fs) == InDir(fs, "new")

\* validate_file_size: st_size / (1024 * 1024) <= max_file_size_mb; the
\* division by 2^20 is exact, so this is the comparison in bytes.
LimitBytes == MAX_FILE_SIZE_MB * 1024 * 1024

\* Mutant of validate_file_size: a file exactly at the limit is refused.
validate_file_size_Strict(size) == size < LimitBytes

validate_file_size(size) == size <= LimitBytes

\* compress_pdf on new/name; csize is the size of the re-encoded copy and io
\* the step at which the file system raises, if any.
\*   read_fails    PdfReader raises: nothing was written
\*   write_fails   writing compressed_<name> raises: a partial copy is left
\*   unlink_fails  file_path.unlink() resp. compressed_path.unlink() raises
\*   rename_fails  compressed_path.rename(file_path) raises
IoCompress == {"ok", "read_fails", "write_fails", "unlink_fails", "rename_fails"}
CompressedName(name) == [name EXCEPT !.pre = @ + 1]

\* Mutant of compress_pdf: the copy is promoted whatever its size.
compress_pdf_KeepsOversized(fs, dir, name, csize, io, t) ==
    LET f == At(fs, dir, name)
        cname == CompressedName(name)
        temp == File(dir, cname, f.offer, csize, t)
        written == Without(fs, dir, cname) \cup {temp}
    IN IF validate_file_size(f.size) THEN [files |-> fs, ok |-> TRUE]
       ELSE IF io = "read_fails" THEN [files |-> fs, ok |-> FALSE]
       ELSE IF io = "write_fails" THEN [files |-> written, ok |-> FALSE]
       ELSE IF io = "unlink_fails" THEN [files |-> written, ok |-> FALSE]
       ELSE IF io = "rename_fails" THEN [files |-> written \ {f}, ok |-> FALSE]
       ELSE [files |-> (written \ {f, temp}) \cup {File(dir, name, f.offer, csize, t)},
             ok |-> TRUE]

compress_pdf(fs, dir, name, csize, io, t) ==
    LET f == At(fs, dir, name)
        cname == CompressedName(name)
        temp == File(dir, cname, f.offer, csize, t)
        written == Without(fs, dir, cname) \cup {temp}
    IN IF validate_file_size(f.size) THEN [files |-> fs, ok |-> TRUE]
       ELSE IF io = "read_fails" THEN [files |-> fs, ok |-> FALSE]
       ELSE IF io = "write_fails" THEN [files |-> written, ok |-> FALSE]
       ELSE IF validate_file_size(csize)
            THEN IF io = "unlink_fails" THEN [files |-> written, ok |-> FALSE]
                 ELSE IF io = "rename_fails"
                      THEN [files |-> written \ {f}, ok |-> FALSE]
                      ELSE [files |-> (written \ {f, temp})
                                       \cup {File(dir, name, f.offer, csize, t)},
                            ok |-> TRUE]
            ELSE IF io = "unlink_fails" THEN [files |-> written, ok |-> FALSE]
                 ELSE [files |-> written \ {temp}, ok |-> FALSE]

\* shutil.move(src, dst) to a file path: the file keeps its content and
\* mtime and replaces a file already at dst.
Move(fs, f, dir, name) ==
    (Without(fs, dir, name) \ {f}) \cup {[f EXCEPT !.dir = dir, !.name = name]}

\* move_to_in_progress(new/name); mio = "move_fails" when shutil.move raises.
\* The result is the path in_progress/<name> (dir, name), or None (ok = FALSE).
IoMove == {"ok", "move_fails"}
NoPath(fs) == [files |-> fs, ok |-> FALSE, dir |-> "", name |-> NoName]
move_to_in_progress(fs, name, csize, cio, mio, t) ==
    IF ~Exists(fs, "new", name) THEN NoPath(fs)
    ELSE LET c == IF validate_file_size(At(fs, "new", name).size)
                  THEN [files |-> fs, ok |-> TRUE]
                  ELSE compress_pdf(fs, "new", name, csize, cio, t)
         IN IF ~c.ok THEN NoPath(c.files)
            ELSE IF mio = "move_fails" THEN NoPath(c.files)
            ELSE [files |-> Move(c.files, At(c.files, "new", name), "in_progress", name),
                  ok |-> TRUE, dir |-> "in_progress", name |-> name]

\* move_to_archived(in_progress/name)
move_to_archived(fs, name, mio) ==
    IF ~Exists(fs, "in_progress", name) THEN NoPath(fs)
    ELSE IF mio = "move_fails" THEN NoPath(fs)
    ELSE [files |-> Move(fs, At(fs, "in_progress", name), "archived", name),
          ok |-> TRUE, dir |-> "archived", name |-> name]

\* standardize_filename.  A string is a sequence of characters; the model's
\* alphabet has upper- and lower-case letters, space, tab, hyphen, underscore
\* and punctuation.
Chars == {"A", "C", "a", "c", " ", "TAB", "-", "_", "!"}
Lower(ch) == IF ch = "A" THEN "a" ELSE IF ch = "C" THEN "c" ELSE ch
IsWord(ch) == ch \in {"A", "C", "a", "c", "_"}
IsSpace(ch) == ch \in {" ", "TAB"}

RECURSIVE Clean(_)
\* re.sub(r'[^\w\s-]', '', s.lower()).replace(' ', '_')
Clean(str) ==
    IF str = <<>> THEN <<>>
    ELSE LET ch == Lower(Head(str))
             rest == Clean(Tail(str))
         IN IF ~(IsWord(ch) \/ IsSpace(ch) \/ ch = "-") THEN rest
            ELSE IF ch = " " THEN <<"_">> \o rest
            ELSE <<ch>> \o rest

standardize_filename(company, position, t) ==
    Name(0, TRUE, 0, Clean(company), Clean(position), t)

\* rename_after_analysis(in_progress/name, company, position); Path.rename
\* replaces a file already at the new name, or raises (rio = "rename_fails").
IoRename == {"ok", "rename_fails"}
rename_after_analysis(fs, name, company, position, rio, t) ==
    IF ~Exists(fs, "in_progress", name) THEN [files |-> fs, ok |-> FALSE, name |-> NoName]
    ELSE LET new_name == standardize_filename(company, position, t) IN
         IF rio = "rename_fails" THEN [files |-> fs, ok |-> FALSE, name |-> NoName]
         ELSE [files |-> Move(fs, At(fs, "in_progress", name), "in_progress", new_name),
               ok |-> TRUE, name |-> new_name]

\* cleanup_old_files: one try around the whole loop.  The scan visits the
\* archived files in directory order; done is the set visited before the
\* file system raises (all of them when it does not raise).
CleanupSeconds == CLEANUP_DAYS * 24 * 60 * 60

\* Mutant of Expired: a file exactly at the cutoff is deleted too.
Expired_AtCutoff(f, t) == f.mtime <= t - CleanupSeconds

\* file_path.stat().st_mtime < cutoff
Expired(f, t) == f.mtime < t - CleanupSeconds
cleanup_old_files(fs, done, t) ==
    {f \in fs : ~(f \in done /\ f.dir = "archived" /\ Expired(f, t))}

----------------------------------------------------------------------------
(* forget_offer: src/app.py *)

\* Mutant of SetForget: the records of the forgotten offer are removed.
SetForget_Remove(offers, file_name) ==
    SelectSeq(offers, LAMBDA r : r.file_name # file_name)

\* for analysis in analyses: if analysis["file_name"] == file_name: ...
SetForget(offers, file_name) ==
    [i \in 1..Len(offers) |->
        IF offers[i].file_name = file_name
        THEN [offers[i] EXCEPT !.forget = TRUE] ELSE offers[i]]

\* forget_offer(file_name): archive in_progress/file_name and, when the move
\* succeeded, flag the records of the current batch that carry the name.
\* get_all_analyses returns the list of the document itself, so the flag is
\* set in self.data; save() is not called.
forget_offer(d, fs, file_name, mio) ==
    LET m == move_to_archived(fs, file_name, mio) IN
    IF ~m.ok THEN [data |-> d, files |-> fs, ok |-> FALSE]
    ELSE IF Len(d.analyses) = 0 THEN [data |-> d, files |-> m.files, ok |-> TRUE]
    ELSE [data |-> [d EXCEPT !.analyses[Len(d.analyses)].offers = SetForget(@, file_name)],
          files |-> m.files, ok |-> TRUE]

\* generate_cover_letter(analysis) of the application, for record i of the
\* current batch.  analyzer.generate_cover_letter returns the letter the
\* record already has, or asks the service (gen = NoLetter: the call failed,
\* None) and attaches the answer to the record, which is the dict of
\* self.data; the application then adds the letter's generation_cost to
\* the ledger and ignores what add_cover_letter_cost returns.
generate_cover_letter(d, file, i, gen, io, t) ==
    LET rec == get_all_analyses(d)[i]
        result == IF rec.cover_letter.has THEN rec.cover_letter ELSE gen
        d1 == [d EXCEPT !.analyses[Len(d.analyses)].offers[i].cover_letter = result]
    IN IF ~result.has THEN [data |-> d, disk |-> file, ok |-> FALSE, saved |-> FALSE]
       ELSE LET a == add_cover_letter_cost(d1, file, CostNum(result.generation_cost),
                                           io, t)
            IN [data |-> a.data, disk |-> a.disk, ok |-> TRUE, saved |-> a.saved]

----------------------------------------------------------------------------
(* analyze_new_offers: src/app.py *)

\* One entry of the run's log: the call made, the file it was made for,
\* whether it succeeded and the name it returned or stored.
Event(op, name, ok, out) == [op |-> op, name |-> name, ok |-> ok, out |-> out]

\* analyzer.analyze_pdf(new_path): None (the API call failed or the response
\* lacks a top-level section), or the analysis with its company, position
\* and cost.  When the answer recommends applying, analyze_pdf calls
\* generate_cover_letter on the analysis before returning it, which attaches
\* the letter (AnalysisWithLetter) unless that second API call fails.
NoAnalysis ==
    [ok |-> FALSE, company |-> <<>>, position |-> <<>>, cost |-> CostAbsent,
     cover_letter |-> NoLetter]
Analysis(company, position, cost) ==
    [ok |-> TRUE, company |-> company, position |-> position, cost |-> cost,
     cover_letter |-> NoLetter]
AnalysisWithLetter(company, position, cost, g) ==
    [Analysis(company, position, cost) EXCEPT !.cover_letter = Letter(g)]

\* analysis["file_name"] = standardized_path.name: the record handed to
\* add_analysis
Renamed(an, fn) == [Record(fn, an.cost) EXCEPT !.cover_letter = an.cover_letter]

\* What one pass of the loop leaves behind.
Pass(fs, d, file, log, raised) ==
    [files |-> fs, data |-> d, disk |-> file, log |-> log, raised |-> raised]

\* Mutant of analyze_offer: the record is stored also when the rename failed,
\* under the name the file still has.
analyze_offer_RecordsUnrenamed(fs, d, file, log, name, mio, an, rio, sio, t) ==
    LET log0 == Append(log, Event("offer", name, TRUE, NoName)) IN
    IF ~Exists(fs, "new", name) THEN Pass(fs, d, file, log0, TRUE)
    ELSE IF At(fs, "new", name).size > LimitBytes
    THEN Pass(fs, d, file, Append(log0, Event("too_large", name, FALSE, NoName)), FALSE)
    ELSE LET m == move_to_in_progress(fs, name, LimitBytes, "ok", mio, t)
             log1 == Append(log0, Event("move_to_in_progress", name, m.ok, m.name))
         IN IF ~m.ok THEN Pass(m.files, d, file, log1, FALSE)
            ELSE LET log2 == Append(log1, Event("analyze_pdf", name, an.ok, name)) IN
                 IF ~an.ok THEN Pass(m.files, d, file, log2, FALSE)
                 ELSE LET r == rename_after_analysis(m.files, name, an.company,
                                                     an.position, rio, t)
                          log3 == Append(log2, Event("rename_after_analysis", name,
                                                     r.ok, r.name))
                          stored == IF r.ok THEN r.name ELSE name
                          a == add_analysis(d, file, Renamed(an, stored), sio, t)
                      IN Pass(r.files, a.data, a.disk,
                              Append(log3, Event("add_analysis", name, a.ret, stored)),
                              FALSE)

\* One pass of "for offer_path in new_offers" for the listed file name.
\*   offer_path.stat() is outside any try: FileNotFoundError leaves
\*   analyze_new_offers when the file is no longer in new (raised = TRUE).
\*   An oversized file is skipped; then move_to_in_progress, analyze_pdf,
\*   rename_after_analysis and add_analysis, each only when the one before
\*   returned a result.
analyze_offer(fs, d, file, log, name, mio, an, rio, sio, t) ==
    LET log0 == Append(log, Event("offer", name, TRUE, NoName)) IN
    IF ~Exists(fs, "new", name) THEN Pass(fs, d, file, log0, TRUE)
    ELSE IF At(fs, "new", name).size > LimitBytes
    THEN Pass(fs, d, file, Append(log0, Event("too_large", name, FALSE, NoName)), FALSE)
    ELSE LET m == move_to_in_progress(fs, name, LimitBytes, "ok", mio, t)
             log1 == Append(log0, Event("move_to_in_progress", name, m.ok, m.name))
         IN IF ~m.ok THEN Pass(m.files, d, file, log1, FALSE)
            ELSE LET log2 == Append(log1, Event("analyze_pdf", name, an.ok, name)) IN
                 IF ~an.ok THEN Pass(m.files, d, file, log2, FALSE)
                 ELSE LET r == rename_after_analysis(m.files, name, an.company,
                                                     an.position, rio, t)
                          log3 == Append(log2, Event("rename_after_analysis", name,
                                                     r.ok, r.name))
                      IN IF ~r.ok THEN Pass(r.files, d, file, log3, FALSE)
                         ELSE LET a == add_analysis(d, file, Renamed(an, r.name), sio, t)
                              IN Pass(r.files, a.data, a.disk,
                                      Append(log3, Event("add_analysis", name,
                                                         a.ret, r.name)),
                                      FALSE)

----------------------------------------------------------------------------
(* Inputs *)

Companies == {<<"A", "c", "!">>, <<"C", " ", "a">>}
Positions == {<<"A", " ", " ", "C">>}
FirstCompany == <<"A", "c", "!">>
FirstPosition == <<"A", " ", " ", "C">>

\* names the orchestrator gave to analysed offers at second 0
StdNames == {standardize_filename(c, p, 0) : c \in Companies, p \in Positions}
FirstStdName == standardize_filename(FirstCompany, FirstPosition, 0)

\* names of files dropped into new: offer.pdf and other.pdf
DropNames == {OrigName(1), OrigName(2)}

\* sizes around the limit, and modification times around the cleanup cutoff
Sizes == {LimitBytes, LimitBytes + 1}
\* a dropped file was last modified exactly cleanup_days before second 0
Mtimes == {0 - CleanupSeconds}

\* records handed to add_analysis: a priced one, one without the cost key, and
\* one whose cost is not a number
OtherStdName == standardize_filename(<<"C", " ", "a">>, FirstPosition, 0)
Records == {Record(FirstStdName, CostNum(MaxTokens)),
            Record(OtherStdName, CostAbsent),
            Record(OtherStdName, CostBad)}
NoRecord == Record(NoName, CostAbsent)

\* A document a previous session saved: one analysed offer.
SavedDoc == add_analysis(initialize_data(0), AbsentFile,
                         Record(FirstStdName, CostNum(1)), "ok", 0).data

\* What the constructor may find at the backing path.
BackingFiles == {AbsentFile, MalformedFile, UnreadableFile,
                 DocFile(SavedDoc), DocFile(NoDoc)}

RECURSIVE CountOffers(_)
CountOffers(analyses) ==
    IF analyses = <<>> THEN 0
    ELSE Len(Head(analyses).offers) + CountOffers(Tail(analyses))

\* The last call: ret is its result (TRUE, or a path; FALSE for False, None or
\* an exception that left it), saved whether it reached save(), raised
\* whether an exception left the call.
Call(op, ret, saved, batch, analysis, cost, name) ==
    [op |-> op, ret |-> ret, saved |-> saved, batch |-> batch, analysis |-> analysis,
     cost |-> cost, name |-> name, raised |-> FALSE]
Raised(op) ==
    [Call(op, FALSE, FALSE, "", NoRecord, CostAbsent, NoName) EXCEPT !.raised = TRUE]

\* what the analysis service answers for an offer
Analyses == {NoAnalysis} \cup
            {Analysis(c, FirstPosition, CostNum(1)) : c \in Companies} \cup
            {AnalysisWithLetter(FirstCompany, FirstPosition, CostNum(1), 1)}

\* the orders in which glob may list the names
Listings(names) ==
    {l \in [1..Cardinality(names) -> names] : \A i, j \in DOMAIN l : l[i] = l[j] => i = j}

\* analyze_new_offers is not running: nothing listed, no call made
NoRun == [pc |-> "idle", listed |-> <<>>, todo |-> <<>>, log |-> <<>>]

\* no second DataHandler has been constructed
Instances == {1, 2}
NoPeer == [data |-> NoDoc, calls |-> [i \in Instances |-> 0], last |-> 0]

\* analyze_pdfs_parallel is not running
NoPar ==
    [pc |-> "idle", n |-> 0, value |-> 0, tasks |-> <<>>, results |-> <<>>, out |-> <<>>]

\* the lists of files handed to analyze_pdfs_parallel: no file twice
Submissions ==
    UNION {{l \in [1..k -> 1..MaxFiles] : \A i, j \in 1..k : l[i] = l[j] => i = j}
           : k \in 0..MaxFiles}

Rank(dir) == IF dir = "new" THEN 1 ELSE IF dir = "in_progress" THEN 2 ELSE 3
Offers == 1..MaxOffers
Max(a, b) == IF a >= b THEN a ELSE b
RECURSIVE MaxRank(_)
MaxRank(fs) ==
    IF fs = {} THEN 0
    ELSE LET f == CHOOSE x \in fs : TRUE IN Max(Rank(f.dir), MaxRank(fs \ {f}))
\* the highest stage each offer has had a file in
Seen(old, fs) ==
    [o \in Offers |-> Max(old[o], MaxRank({f \in fs : f.offer = o}))]

\* Directory contents the file manager may find: each offer has no file, or
\* one file in one stage directory; no two files share a directory and a name.
NoSlot == [dir |-> "none", name |-> NoName, size |-> 0, mtime |-> 0]
Slot(dir, name, size, mtime) == [dir |-> dir, name |-> name, size |-> size, mtime |-> mtime]
Placed(p) ==
    {File(p[o].dir, p[o].name, o, p[o].size, p[o].mtime) :
        o \in {x \in DOMAIN p : p[x].dir # "none"}}
NoClash(fs) == \A f, g \in fs : (f.dir = g.dir /\ f.name = g.name) => f = g
Contents(slots) ==
    {fs \in {Placed(p) : p \in [Offers -> slots \cup {NoSlot}]} : NoClash(fs)}

\* files waiting in new, of a size around the limit, next to files already
\* taken into in_progress
IngestSlots ==
    {Slot("new", n, size, m) : n \in DropNames, size \in Sizes, m \in Mtimes}
    \cup {Slot("in_progress", n, LimitBytes, m) : n \in DropNames, m \in Mtimes}

\* files of every stage, last modified around cleanup_days before second 0
MtimesAround == {0 - CleanupSeconds - 1, 0 - CleanupSeconds, 0 - CleanupSeconds + 1}
RetentionSlots ==
    {Slot(d, n, LimitBytes, m) : d \in Dirs, n \in DropNames, m \in MtimesAround}

----------------------------------------------------------------------------
(* Actions *)

LedgerUp == ledger \in {"fresh", "loaded"}

\* DataHandler(data_file): initialize_app builds it when the session has none
Construct ==
    /\ ledger \in {"none", "raised"}
    /\ LET r == load_or_initialize(disk, now) IN
        /\ data' = r.data
        /\ ledger' = IF r.raised THEN "raised" ELSE IF r.fresh THEN "fresh" ELSE "loaded"
        /\ call' = IF r.raised THEN Raised("DataHandler")
                   ELSE Call("DataHandler", TRUE, FALSE, "", NoRecord, CostAbsent, NoName)
    /\ UNCHANGED <<peer, par, disk, files, seen, nextOffer, now, run>>

AddAnalysis ==
    /\ LedgerUp
    /\ CountOffers(data.analyses) < MaxRecords
    /\ data.api_usage.requests_count < MaxRequests
    /\ \E analysis \in Records, io \in IoSave :
        LET r == add_analysis(data, disk, analysis, io, now) IN
        /\ data' = r.data
        /\ disk' = r.disk
        /\ call' = Call("add_analysis", r.ret, r.saved, "", analysis, analysis.analysis_cost, NoName)
    /\ UNCHANGED <<peer, par, ledger, files, seen, nextOffer, now, run>>

AddCoverLetterCost ==
    /\ LedgerUp
    /\ data.api_usage.requests_count < MaxRequests
    /\ \E cost \in CostVals \ {CostAbsent}, io \in IoSave :
        LET r == add_cover_letter_cost(data, disk, cost, io, now) IN
        /\ data' = r.data
        /\ disk' = r.disk
        /\ call' = Call("add_cover_letter_cost", r.ret, r.saved, "", NoRecord, cost, NoName)
    /\ UNCHANGED <<peer, par, ledger, files, seen, nextOffer, now, run>>

ClearAnalyses ==
    /\ LedgerUp
    /\ Len(data.analyses) < MaxBatches
    /\ \E batch \in BatchArgs, io \in IoSave :
        LET r == clear_analyses(data, disk, batch, io, now) IN
        /\ data' = r.data
        /\ disk' = r.disk
        /\ call' = Call("clear_analyses", r.ret, r.saved, batch, NoRecord, CostAbsent, NoName)
    /\ UNCHANGED <<peer, par, ledger, files, seen, nextOffer, now, run>>

ForgetOffer ==
    /\ LedgerUp
    /\ \E f \in InDir(files, "in_progress"), mio \in IoMove :
        LET r == forget_offer(data, files, f.name, mio) IN
        /\ data' = r.data
        /\ files' = r.files
        /\ seen' = Seen(seen, r.files)
        /\ call' = Call("forget_offer", r.ok, FALSE, "", NoRecord, CostAbsent, NoName)
    /\ UNCHANGED <<peer, par, disk, ledger, nextOffer, now, run>>

Tick ==
    /\ now < MaxClock
    /\ now' = now + 1
    /\ call' = Call("tick", TRUE, FALSE, "", NoRecord, CostAbsent, NoName)
    /\ UNCHANGED <<peer, par, data, disk, ledger, files, seen, nextOffer, run>>

\* the user saves a PDF into new
DropOffer ==
    /\ nextOffer < MaxOffers
    /\ \E name \in DropNames, size \in Sizes, mtime \in Mtimes :
        /\ ~Exists(files, "new", name)
        /\ files' = files \cup {File("new", name, nextOffer + 1, size, mtime)}
        /\ seen' = Seen(seen, files')
        /\ call' = Call("drop", TRUE, FALSE, "", NoRecord, CostAbsent, NoName)
    /\ nextOffer' = nextOffer + 1
    /\ UNCHANGED <<peer, par, data, disk, ledger, now, run>>

MoveToInProgress ==
    /\ \E f \in get_new_offers(files), csize \in Sizes, cio \in IoCompress, mio \in IoMove :
        LET r == move_to_in_progress(files, f.name, csize, cio, mio, now) IN
        /\ validate_file_size(f.size) \/ f.name.pre < MaxPrefix
        \* inputs that are not read are not enumerated
        /\ validate_file_size(f.size) => (csize = LimitBytes /\ cio = "ok")
        /\ cio \in {"read_fails", "write_fails"} => csize = LimitBytes
        /\ cio # "ok" => mio = "ok"
        /\ files' = r.files
        /\ seen' = Seen(seen, r.files)
        /\ call' = Call("move_to_in_progress", r.ok, FALSE, "", NoRecord, CostAbsent, NoName)
    /\ UNCHANGED <<peer, par, data, disk, ledger, nextOffer, now, run>>

RenameAfterAnalysis ==
    /\ \E f \in InDir(files, "in_progress"), company \in {FirstCompany},
          position \in Positions, rio \in IoRename :
        LET r == rename_after_analysis(files, f.name, company, position, rio, now) IN
        /\ ~f.name.std
        /\ files' = r.files
        /\ seen' = Seen(seen, r.files)
        /\ call' = Call("rename_after_analysis", r.ok, FALSE, "", NoRecord, CostAbsent, r.name)
    /\ UNCHANGED <<peer, par, data, disk, ledger, nextOffer, now, run>>

Cleanup ==
    /\ \E done \in SUBSET InDir(files, "archived") :
        /\ files' = cleanup_old_files(files, done, now)
        /\ seen' = Seen(seen, files')
    /\ call' = Call("cleanup_old_files", TRUE, FALSE, "", NoRecord, CostAbsent, NoName)
    /\ UNCHANGED <<peer, par, data, disk, ledger, nextOffer, now, run>>

\* analyze_new_offers up to its loop: the listing of new
RunStart ==
    /\ LedgerUp
    /\ run.pc # "loop"
    /\ \E listed \in Listings({f.name : f \in get_new_offers(files)}) :
        run' = [pc |-> IF listed = <<>> THEN "done" ELSE "loop",
                listed |-> listed, todo |-> listed, log |-> <<>>]
    /\ call' = Call("analyze_new_offers", TRUE, FALSE, "", NoRecord, CostAbsent, NoName)
    /\ UNCHANGED <<peer, par, data, disk, ledger, files, seen, nextOffer, now>>

\* one pass of the loop of analyze_new_offers, for the next listed offer
RunOffer ==
    /\ run.pc = "loop"
    /\ \E mio \in IoMove, an \in Analyses, rio \in IoRename, sio \in IoSave :
        LET name == Head(run.todo)
            r == analyze_offer(files, data, disk, run.log, name, mio, an, rio, sio, now)
            reads == IF ~Exists(files, "new", name) THEN 0
                     ELSE IF At(files, "new", name).size > LimitBytes THEN 0
                     ELSE IF mio # "ok" THEN 1
                     ELSE IF ~an.ok THEN 2
                     ELSE IF rio # "ok" THEN 3 ELSE 4
        IN \* inputs that are not read are not enumerated
           /\ reads < 1 => mio = "ok"
           /\ reads < 2 => an = NoAnalysis
           /\ reads < 3 => rio = "ok"
           /\ reads < 4 => sio = "ok"
           /\ files' = r.files
           /\ data' = r.data
           /\ disk' = r.disk
           /\ seen' = Seen(seen, r.files)
           /\ run' = [run EXCEPT !.log = r.log,
                                 !.todo = Tail(@),
                                 !.pc = IF r.raised THEN "aborted"
                                        ELSE IF Tail(run.todo) = <<>> THEN "done"
                                        ELSE "loop"]
           /\ call' = IF r.raised THEN Raised("analyze_new_offers")
                      ELSE Call("analyze_new_offers", TRUE, FALSE, "", NoRecord,
                                CostAbsent, NoName)
    /\ UNCHANGED <<peer, par, ledger, nextOffer, now>>

\* the user removes a listed PDF from new while the run is under way
VanishOffer ==
    /\ run.pc = "loop"
    /\ \E f \in get_new_offers(files) :
        /\ \E i \in 1..Len(run.todo) : run.todo[i] = f.name
        /\ files' = files \ {f}
    /\ seen' = Seen(seen, files')
    /\ call' = Call("vanish", TRUE, FALSE, "", NoRecord, CostAbsent, NoName)
    /\ UNCHANGED <<peer, par, data, disk, ledger, nextOffer, now, run>>

\* what the service answers to a cover-letter request
Letters == {NoLetter, Letter(1)}

\* the "Generate Cover Letter" button, shown for a record without a letter
GenerateCoverLetter ==
    /\ LedgerUp
    /\ run.pc # "loop"
    /\ data.api_usage.requests_count < MaxRequests
    /\ \E i \in 1..Len(get_all_analyses(data)), gen \in Letters, io \in IoSave :
        LET r == generate_cover_letter(data, disk, i, gen, io, now) IN
        /\ ~get_all_analyses(data)[i].cover_letter.has
        \* inputs that are not read are not enumerated
        /\ ~gen.has => io = "ok"
        /\ data' = r.data
        /\ disk' = r.disk
        /\ call' = Call("generate_cover_letter", r.ok, r.saved, "", NoRecord,
                        CostAbsent, NoName)
    /\ UNCHANGED <<peer, par, ledger, files, seen, nextOffer, now, run>>

\* Mutant of Doc: an instance reads the backing file again before each call.
Doc_Reloads(i) ==
    IF disk.kind = "doc" THEN disk.doc ELSE IF i = 1 THEN data ELSE peer.data

\* Two DataHandler instances (two sessions of the application) on one
\* backing file.  Instance 1 holds data, instance 2 holds peer.data; neither
\* reads the file again after its construction.
Doc(i) == IF i = 1 THEN data ELSE peer.data

\* the record instance i adds
TwoRecord(i) == Record(standardize_filename(FirstCompany, FirstPosition, i), CostNum(1))

\* instance i made a call with result r
ByInstance(i, r) ==
    /\ data' = IF i = 1 THEN r.data ELSE data
    /\ peer' = [data |-> IF i = 2 THEN r.data ELSE peer.data,
                calls |-> [peer.calls EXCEPT ![i] = @ + 1],
                last |-> i]
    /\ disk' = r.disk
    /\ UNCHANGED <<ledger, files, seen, nextOffer, now, run, par>>

TwoAddAnalysis ==
    \E i \in Instances, io \in IoSave :
        LET r == add_analysis(Doc(i), disk, TwoRecord(i), io, now) IN
        /\ peer.calls[i] < MaxCalls
        /\ ByInstance(i, r)
        /\ call' = Call("add_analysis", r.ret, r.saved, "", TwoRecord(i),
                        TwoRecord(i).analysis_cost, NoName)

TwoAddCoverLetterCost ==
    \E i \in Instances, io \in IoSave :
        LET r == add_cover_letter_cost(Doc(i), disk, CostNum(1), io, now) IN
        /\ peer.calls[i] < MaxCalls
        /\ ByInstance(i, r)
        /\ call' = Call("add_cover_letter_cost", r.ret, r.saved, "", NoRecord,
                        CostNum(1), NoName)

TwoClearAnalyses ==
    \E i \in Instances, io \in IoSave :
        LET r == clear_analyses(Doc(i), disk, "all", io, now) IN
        /\ peer.calls[i] < MaxCalls
        /\ ByInstance(i, r)
        /\ call' = Call("clear_analyses", r.ret, r.saved, "all", NoRecord,
                        CostAbsent, NoName)

\* Mutant of Successful: the results of gather are returned as they are.
Successful_KeepsNone(tasks, results) == tasks

\* [r for r in results if r is not None]: the files whose analysis gave a
\* result, in the order of gather, which is the order of the tasks
RECURSIVE Successful(_, _)
Successful(tasks, results) ==
    IF tasks = <<>> THEN <<>>
    ELSE (IF Head(results) = "ok" THEN <<Head(tasks)>> ELSE <<>>)
         \o Successful(Tail(tasks), Tail(results))

\* tasks of analyze_with_semaphore that hold the semaphore
InFlight == {i \in 1..Len(par.tasks) : par.results[i] = "running"}

\* analyze_pdfs_parallel(pdf_files, max_concurrent) up to gather: the
\* semaphore and one task per file, none started
ParallelStart ==
    /\ par.pc \in {"idle", "done"}
    /\ \E pdf_files \in Submissions, max_concurrent \in 1..DefaultMaxConcurrent :
        par' = [pc |-> "running", n |-> max_concurrent, value |-> max_concurrent,
                tasks |-> pdf_files,
                results |-> [i \in 1..Len(pdf_files) |-> "pending"],
                out |-> <<>>]
    /\ UNCHANGED <<data, disk, ledger, files, seen, nextOffer, now, call, run, peer>>

\* "async with semaphore" of task i.  The event loop starts the tasks in
\* the order gather created them and runs one task until it suspends;
\* acquire() does not suspend while the value is positive, and
\* analyze_pdf_async contains no await (the client call is the blocking
\* one), so a task begun is finished before the next one begins.
TaskAcquire ==
    /\ par.pc = "running"
    /\ InFlight = {}
    /\ \E i \in 1..Len(par.tasks) :
        /\ par.results[i] = "pending"
        /\ \A j \in 1..(i - 1) : par.results[j] # "pending"
        /\ par.value > 0
        /\ par' = [par EXCEPT !.value = @ - 1, !.results[i] = "running"]
    /\ UNCHANGED <<data, disk, ledger, files, seen, nextOffer, now, call, run, peer>>

\* "return await self.analyze_pdf_async(file_path)" of task i and the
\* release of the semaphore: the analysis, or None when anything raised
TaskAnalyze ==
    /\ par.pc = "running"
    /\ \E i \in InFlight, result \in {"ok", "none"} :
        par' = [par EXCEPT !.value = @ + 1, !.results[i] = result]
    /\ UNCHANGED <<data, disk, ledger, files, seen, nextOffer, now, call, run, peer>>

\* gather has every task's result: the list is filtered and returned
Gather ==
    /\ par.pc = "running"
    /\ \A i \in 1..Len(par.tasks) : par.results[i] \in {"ok", "none"}
    /\ par' = [par EXCEPT !.pc = "done", !.out = Successful(par.tasks, par.results)]
    /\ UNCHANGED <<data, disk, ledger, files, seen, nextOffer, now, call, run, peer>>

----------------------------------------------------------------------------
(* Specifications *)

\* An analysed offer waits in in_progress under its standardized name.
AnalysedFiles == {File("in_progress", FirstStdName, 1, LimitBytes, 0)}

\* The ledger: from the construction of DataHandler on.  The calls of one
\* session are followed within one clock second.
Init ==
    /\ data = NoDoc
    /\ disk \in BackingFiles
    /\ ledger = "none"
    /\ files = AnalysedFiles
    /\ seen = [o \in Offers |-> IF o = 1 THEN 2 ELSE 0]
    /\ nextOffer = 1
    /\ now = 0
    /\ call = Call("start", TRUE, FALSE, "", NoRecord, CostAbsent, NoName)
    /\ run = NoRun
    /\ peer = NoPeer
    /\ par = NoPar

Next ==
    \/ Construct
    \/ AddAnalysis
    \/ AddCoverLetterCost
    \/ ClearAnalyses
    \/ ForgetOffer

Spec == Init /\ [][Next]_vars

\* An offer whose analysis failed in an earlier run is still in in_progress
\* under the name it was dropped with.
StuckFiles == {File("in_progress", OrigName(1), 1, LimitBytes, 0 - CleanupSeconds)}

\* The stage directories: from a fresh ledger on.
InitFiles ==
    /\ data = initialize_data(0)
    /\ disk = AbsentFile
    /\ ledger = "fresh"
    /\ files = StuckFiles
    /\ seen = [o \in Offers |-> IF o = 1 THEN 2 ELSE 0]
    /\ nextOffer = 1
    /\ now = 0
    /\ call = Call("start", TRUE, FALSE, "", NoRecord, CostAbsent, NoName)
    /\ run = NoRun
    /\ peer = NoPeer
    /\ par = NoPar

NextFiles ==
    \/ DropOffer
    \/ MoveToInProgress
    \/ RenameAfterAnalysis
    \/ ForgetOffer
    \/ Cleanup
    \/ Tick

SpecFiles == InitFiles /\ [][NextFiles]_vars

\* Ingestion: move_to_in_progress on whatever new and in_progress hold.
InitIngest ==
    /\ data = initialize_data(0)
    /\ disk = AbsentFile
    /\ ledger = "fresh"
    /\ files \in Contents(IngestSlots)
    /\ seen = Seen([o \in Offers |-> 0], files)
    /\ nextOffer = MaxOffers
    /\ now = 0
    /\ call = Call("start", TRUE, FALSE, "", NoRecord, CostAbsent, NoName)
    /\ run = NoRun
    /\ peer = NoPeer
    /\ par = NoPar

NextIngest ==
    \/ MoveToInProgress

SpecIngest == InitIngest /\ [][NextIngest]_vars

\* Retention: archiving and cleanup on whatever the stage directories hold.
InitRetention ==
    /\ data = initialize_data(0)
    /\ disk = AbsentFile
    /\ ledger = "fresh"
    /\ files \in Contents(RetentionSlots)
    /\ seen = Seen([o \in Offers |-> 0], files)
    /\ nextOffer = MaxOffers
    /\ now = 0
    /\ call = Call("start", TRUE, FALSE, "", NoRecord, CostAbsent, NoName)
    /\ run = NoRun
    /\ peer = NoPeer
    /\ par = NoPar

NextRetention ==
    \/ ForgetOffer
    \/ Cleanup
    \/ Tick

SpecRetention == InitRetention /\ [][NextRetention]_vars

\* The orchestrator: from a fresh ledger and empty stage directories on.
InitRun ==
    /\ data = initialize_data(0)
    /\ disk = AbsentFile
    /\ ledger = "fresh"
    /\ files = {}
    /\ seen = [o \in Offers |-> 0]
    /\ nextOffer = 0
    /\ now = 0
    /\ call = Call("start", TRUE, FALSE, "", NoRecord, CostAbsent, NoName)
    /\ run = NoRun
    /\ peer = NoPeer
    /\ par = NoPar

NextRun ==
    \/ DropOffer
    \/ RunStart
    \/ RunOffer
    \/ VanishOffer

SpecRun == InitRun /\ [][NextRun]_vars

\* A session of the application: runs of analyze_new_offers and, between
\* them, the buttons of the dashboard.
InitApp == InitRun

NextApp ==
    \/ DropOffer
    \/ RunStart
    \/ RunOffer
    \/ VanishOffer
    \/ (run.pc # "loop" /\ ForgetOffer)
    \/ GenerateCoverLetter

SpecApp == InitApp /\ [][NextApp]_vars

\* Two sessions: both DataHandlers were constructed from the same backing
\* file before either made a call.
InitTwo ==
    /\ disk \in {AbsentFile, DocFile(SavedDoc)}
    /\ data = load_or_initialize(disk, 0).data
    /\ peer = [NoPeer EXCEPT !.data = load_or_initialize(disk, 0).data]
    /\ ledger = IF disk = AbsentFile THEN "fresh" ELSE "loaded"
    /\ files = {}
    /\ seen = [o \in Offers |-> 0]
    /\ nextOffer = 0
    /\ now = 0
    /\ call = Call("start", TRUE, FALSE, "", NoRecord, CostAbsent, NoName)
    /\ run = NoRun
    /\ par = NoPar

NextTwo ==
    \/ TwoAddAnalysis
    \/ TwoAddCoverLetterCost
    \/ TwoClearAnalyses

SpecTwo == InitTwo /\ [][NextTwo]_vars

\* The bounded-parallel analysis.  The event loop runs a task that is ready
\* and the service answers or the call raises: weak fairness of the steps.
InitParallel == InitRun

NextParallel ==
    \/ ParallelStart
    \/ TaskAcquire
    \/ TaskAnalyze
    \/ Gather

SpecParallel == InitParallel /\ [][NextParallel]_vars /\ WF_vars(NextParallel)

----------------------------------------------------------------------------
(* Properties of the ledger (Spec) *)

Usage == data.api_usage

\* every record of the document, batch after batch
RECURSIVE AllOffers(_)
AllOffers(analyses) ==
    IF analyses = <<>> THEN <<>>
    ELSE Head(analyses).offers \o AllOffers(Tail(analyses))
LastBatch(d) == d.analyses[Len(d.analyses)]
RecordNames == {r.file_name : r \in Records}

\* C1: starting from a freshly initialised ledger, after any sequence of
\* add_analysis and add_cover_letter_cost calls, whether or not persisting
\* succeeded, total_cost = analysis_costs + cover_letter_costs.
C1_TotalIsSum ==
    ledger = "fresh" =>
        Usage.total_cost = Usage.analysis_costs + Usage.cover_letter_costs

\* both kinds of cost were added, the last call failing to persist
C1_Witness ==
    /\ ledger = "fresh"
    /\ Usage.analysis_costs > 0
    /\ Usage.cover_letter_costs > 0
    /\ call.saved /\ ~call.ret

\* C2: after construction and after any sequence of add_analysis,
\* add_cover_letter_cost and clear_analyses calls the batch list is non-empty
\* (the current batch being its last element).
C2_BatchExists == LedgerUp => Len(data.analyses) >= 1

\* what a step of the ledger must satisfy for C3
C3_Step ==
    LedgerUp =>
        /\ call'.op # "clear_analyses" => Len(data'.analyses) = Len(data.analyses)
        /\ call'.op = "add_analysis" =>
              \/ data'.analyses = data.analyses
              \/ /\ Len(data.analyses) >= 1
                 /\ data'.analyses =
                       [data.analyses EXCEPT ![Len(data.analyses)].offers =
                           Append(@, call'.analysis)]
        /\ call'.op = "add_cover_letter_cost" => data'.analyses = data.analyses
        /\ (call'.op = "clear_analyses" /\ call'.ret) =>
              Len(data'.analyses) = Len(data.analyses) + 1

C4_Step ==
    (LedgerUp /\ call'.op = "clear_analyses" /\ call'.ret) =>
        /\ get_all_analyses(data') = <<>>
        /\ \A n \in RecordNames : ~get_analysis(data', n).found
        /\ Len(data'.analyses) > Len(data.analyses)
        /\ \A i \in 1..Len(data.analyses) : data'.analyses[i] = data.analyses[i]

C5_Step ==
    (call'.op = "add_analysis" /\ call'.ret) =>
        /\ Len(data.analyses) >= 1
        /\ Len(data'.analyses) = Len(data.analyses)
        /\ LastBatch(data').offers = Append(LastBatch(data).offers, call'.analysis)
        /\ \A i \in 1..(Len(data.analyses) - 1) : data'.analyses[i] = data.analyses[i]
        /\ data'.api_usage.analysis_costs =
              data.api_usage.analysis_costs + GetCost(call'.analysis)
        /\ data'.api_usage.total_cost =
              data.api_usage.total_cost + GetCost(call'.analysis)
        /\ data'.api_usage.requests_count = data.api_usage.requests_count + 1
        /\ data'.api_usage.cover_letter_costs = data.api_usage.cover_letter_costs
        /\ disk' = DocFile(data')

\* C5: when add_analysis(record) returns true, the last batch's offers are
\* the previous ones with the record appended, analysis_costs and total_cost
\* grew by the record's cost (0 without the key), requests_count by 1,
\* cover_letter_costs and the earlier batches are unchanged, and the file
\* holds the in-memory document.
C5_AddAnalysisEffect == [][C5_Step]_vars

\* a record without the cost key was added and persisted
C5_Witness ==
    /\ call.op = "add_analysis" /\ call.ret
    /\ ~call.analysis.analysis_cost.has
    /\ Usage.requests_count >= 1
    /\ disk = DocFile(data)

\* what a step of the ledger must satisfy for C6
PersistFailed(c) == c.op = "add_analysis" /\ c.saved /\ ~c.ret
C6_Step ==
    PersistFailed(call') =>
        /\ Len(data.analyses) >= 1
        /\ LastBatch(data').offers = Append(LastBatch(data).offers, call'.analysis)
        /\ data'.api_usage.analysis_costs =
              data.api_usage.analysis_costs + GetCost(call'.analysis)
        /\ data'.api_usage.total_cost =
              data.api_usage.total_cost + GetCost(call'.analysis)
        /\ data'.api_usage.requests_count = data.api_usage.requests_count + 1
        /\ disk' # DocFile(data')
        /\ (PersistFailed(call) /\ call'.analysis = call.analysis) =>
              LET offers == LastBatch(data').offers IN
              /\ Len(offers) >= 2
              /\ offers[Len(offers)] = call.analysis
              /\ offers[Len(offers) - 1] = call.analysis

\* C6: when persisting fails during add_analysis, the call returns false,
\* the in-memory document has the record appended and the costs and the
\* counter increased, and differs from the file; a retry of the same call
\* appends the record and counts its cost once more.
C6_PersistFailureMutates == [][C6_Step]_vars

\* the same priced record was added twice and neither call could persist
C6_Witness ==
    /\ PersistFailed(call)
    /\ disk = AbsentFile
    /\ ledger = "fresh"
    /\ LastBatch(data).offers = <<call.analysis, call.analysis>>
    /\ Usage.analysis_costs = 2 * GetCost(call.analysis)
    /\ GetCost(call.analysis) > 0

\* what a step of the ledger must satisfy for C7
C7_Step ==
    call'.op = "add_cover_letter_cost" =>
        /\ data'.analyses = data.analyses
        /\ data'.api_usage.analysis_costs = data.api_usage.analysis_costs
        /\ IF call'.cost.num
           THEN /\ data'.api_usage.cover_letter_costs =
                      data.api_usage.cover_letter_costs + call'.cost.v
                /\ data'.api_usage.total_cost = data.api_usage.total_cost + call'.cost.v
                /\ data'.api_usage.requests_count = data.api_usage.requests_count + 1
           ELSE data'.api_usage = data.api_usage

\* C7: add_cover_letter_cost(cost) adds cost to cover_letter_costs and to
\* total_cost and 1 to requests_count (nothing when cost is not a number);
\* analysis_costs, the batch list and every record are unchanged.
C7_CoverLetterCostFrame == [][C7_Step]_vars

\* a cover letter cost was added to a ledger that holds a record
C7_Witness ==
    /\ call.op = "add_cover_letter_cost" /\ call.ret
    /\ CountOffers(data.analyses) >= 1
    /\ Usage.cover_letter_costs = call.cost.v
    /\ Usage.analysis_costs > 0

\* what a step of the ledger must satisfy for C8
SameButForgotten(old, new) ==
    /\ [new EXCEPT !.forget = old.forget] = old
    /\ old.forget => new.forget
C8_Step ==
    LedgerUp =>
        /\ Len(data'.analyses) >= Len(data.analyses)
        /\ CountOffers(data'.analyses) >= CountOffers(data.analyses)
        /\ \A i \in 1..Len(data.analyses) :
              /\ data'.analyses[i].timestamp = data.analyses[i].timestamp
              /\ Len(data'.analyses[i].offers) >= Len(data.analyses[i].offers)
              /\ \A j \in 1..Len(data.analyses[i].offers) :
                    SameButForgotten(data.analyses[i].offers[j],
                                     data'.analyses[i].offers[j])
        /\ call'.op = "forget_offer" =>
              /\ Len(data'.analyses) = Len(data.analyses)
              /\ CountOffers(data'.analyses) = CountOffers(data.analyses)

C9_ConstructNeverFails ==
    call.op = "DataHandler" =>
        /\ call.ret
        /\ ledger # "raised"
        /\ IF disk.kind = "doc" THEN data = disk.doc ELSE data = initialize_data(now)

----------------------------------------------------------------------------
(* Properties of the stage directories (SpecFiles) *)

\* C10: each logical offer has at most one file, in one stage directory,
\* and no file of an offer is in an earlier stage than a stage the offer
\* has reached.
C10_OneFileOneStage ==
    /\ \A f, g \in files : f.offer = g.offer => f = g
    /\ \A f \in files : Rank(f.dir) >= seen[f.offer]

\* C11: for a file of new whose size is at most max_file_size_mb x 1024 x
\* 1024 bytes (the limit itself included), move_to_in_progress returns
\* in_progress/<same name>, and then the file, unchanged, is at that path
\* and no longer in new.  When shutil.move raises, the call returns None and
\* nothing has moved.
C11_MoveWithinLimit ==
    \A f \in InDir(files, "new"), mio \in IoMove :
        f.size <= MAX_FILE_SIZE_MB * 1024 * 1024 =>
            LET r == move_to_in_progress(files, f.name, f.size, "ok", mio, now) IN
            IF mio = "ok"
            THEN /\ r.ok /\ r.dir = "in_progress" /\ r.name = f.name
                 /\ [f EXCEPT !.dir = "in_progress"] \in r.files
                 /\ ~Exists(r.files, "new", f.name)
            ELSE ~r.ok /\ r.files = files

\* the second offer, exactly at the limit, was moved as it was dropped
C11_Witness ==
    /\ call.op = "move_to_in_progress" /\ call.ret
    /\ \E f \in InDir(files, "in_progress") :
          /\ f.offer = 2 /\ f.size = LimitBytes /\ f.mtime = 0 - CleanupSeconds
          /\ ~Exists(files, "new", f.name)

C13_CompressTwoOutcomes ==
    \A f \in InDir(files, "new"), csize \in Sizes, cio \in IoCompress :
        f.size > MAX_FILE_SIZE_MB * 1024 * 1024 =>
            LET r == compress_pdf(files, "new", f.name, csize, cio, now)
                noTemp == ~Exists(r.files, "new", CompressedName(f.name))
                discarded == ~r.ok /\ f \in r.files /\ noTemp
                replaced == /\ r.ok /\ noTemp
                            /\ File("new", f.name, f.offer, csize, now) \in r.files
            IN IF cio = "read_fails" THEN discarded
               ELSE IF csize > MAX_FILE_SIZE_MB * 1024 * 1024 THEN discarded
               ELSE replaced

\* C14: a successful rename_after_analysis leaves the file in the same
\* directory under {c}_{p}_{timestamp}.pdf; for the company "Ac!" and the
\* position "A  C" (two spaces) c is "ac" and p is "a_c".
C14_StandardizedName ==
    (call.op = "rename_after_analysis" /\ call.ret) =>
        /\ call.name.std
        /\ call.name.co = <<"a", "c">>
        /\ call.name.po = <<"a", "_", "c">>
        /\ call.name.ts <= now
        /\ Exists(files, "in_progress", call.name)

\* what a rename must satisfy for C15
C15_Step ==
    call'.op = "rename_after_analysis" =>
        \A f \in files :
            \/ f \in files'
            \/ [f EXCEPT !.name = call'.name] \in files'

\* C15: rename_after_analysis never overwrites a file: every file that was
\* there before a rename is there after it, under its own name (the renamed
\* one under the new name), also when two files are renamed with the same
\* company and position within one second.
C15_RenameNeverOverwrites == [][C15_Step]_vars

\* C16: cleanup_old_files deletes only archived files whose modification
\* time is before now minus cleanup_days days: no file of new or in_progress
\* and no archived file modified at or after the cutoff; a scan that is not
\* interrupted deletes every archived file older than the cutoff.
C16_CleanupExact ==
    \A done \in SUBSET InDir(files, "archived") :
        LET after == cleanup_old_files(files, done, now)
            old == {f \in files : /\ f.dir = "archived"
                                  /\ f.mtime < now - CLEANUP_DAYS * 24 * 60 * 60}
        IN /\ after \subseteq files
           /\ (files \ after) \subseteq old
           /\ done = InDir(files, "archived") => after = files \ old

\* a cleanup deleted the first offer's file and kept a younger archived file
C16_Witness ==
    /\ call.op = "cleanup_old_files"
    /\ seen[1] = 3 /\ ~(\E f \in files : f.offer = 1)
    /\ \E f \in InDir(files, "archived") : f.mtime >= now - CleanupSeconds

\* what a cleanup must satisfy for C17
C17_Step ==
    call'.op = "cleanup_old_files" =>
        Cardinality({f \in files' : /\ f.dir = "archived"
                                    /\ f.mtime < now - CLEANUP_DAYS * 24 * 60 * 60}) <= 1

\* C17: cleanup_old_files is best-effort per file: when one expired
\* archived file cannot be inspected or deleted, every other expired
\* archived file is deleted by the same call, so at most that one is left.
C17_CleanupBestEffort == [][C17_Step]_vars

----------------------------------------------------------------------------
(* Properties of the components' boundary (Spec) and of the run (SpecRun) *)

\* C18: no operation of the File Manager or of the Ledger lets an exception
\* escape: whatever the backing file holds and whatever the file system
\* does, every call, the construction of the ledger included, returns.
C18_NoExceptionEscapes == ~call.raised /\ ledger # "raised"

Attempted(name) == \E i \in 1..Len(run.log) :
    run.log[i].op = "offer" /\ run.log[i].name = name

\* C19: when a run of analyze_new_offers has ended, every offer it listed
\* has been attempted, whatever failed on the offers before it.
C19_EveryOfferAttempted ==
    run.pc \in {"done", "aborted"} =>
        \A i \in 1..Len(run.listed) : Attempted(run.listed[i])

\* C20: in the calls of a run, rename_after_analysis follows a successful
\* analyze_pdf of the same offer, add_analysis follows a successful
\* rename_after_analysis of the same offer and stores the record under the
\* name that rename returned, and a failed analysis or rename is the last
\* call made for its offer.
C20_StepsInOrder ==
    \A i \in 1..Len(run.log) :
        LET e == run.log[i]
            before == run.log[i - 1]
        IN /\ e.op = "rename_after_analysis" =>
                /\ i > 1 /\ before.op = "analyze_pdf" /\ before.ok
                /\ before.name = e.name
           /\ e.op = "add_analysis" =>
                /\ i > 1 /\ before.op = "rename_after_analysis" /\ before.ok
                /\ before.name = e.name
                /\ e.out = before.out /\ e.out.std
                /\ \E b \in 1..Len(data.analyses) :
                      \E k \in 1..Len(data.analyses[b].offers) :
                          data.analyses[b].offers[k].file_name = e.out
           /\ (e.op \in {"analyze_pdf", "rename_after_analysis"} /\ ~e.ok) =>
                (i = Len(run.log) \/ run.log[i + 1].op = "offer")

\* a run ended in which one offer's rename failed and the other offer was
\* renamed and recorded
C20_Witness ==
    /\ run.pc = "done"
    /\ \E i, j \in 1..Len(run.log) :
          /\ run.log[i].op = "rename_after_analysis" /\ ~run.log[i].ok
          /\ run.log[j].op = "add_analysis" /\ run.log[j].ok
          /\ run.log[i].name # run.log[j].name
    /\ CountOffers(data.analyses) = 1

----------------------------------------------------------------------------
(* The ledger and the stage directories: calls that meet a fault or an
   argument off the usual path *)

\* what a step of the ledger must satisfy for C23
C23_Step ==
    (LedgerUp /\ call'.op = "clear_analyses" /\ call'.batch = "last") =>
        /\ call'.saved
        /\ (disk' = DocFile(data') => call'.ret)
        /\ Len(data'.analyses) = Len(data.analyses) + 1
        /\ get_all_analyses(data') = <<>>
        /\ \A i \in 1..Len(data.analyses) : data'.analyses[i] = data.analyses[i]

\* C23: clear_analyses(batch = "last") starts a new, empty current batch
\* after the batches the document had, reaches save() and returns true when
\* the document was written, as clear_analyses() does.
C23_ClearLast == [][C23_Step]_vars

\* what a step of the stage directories must satisfy for C24
C24_Step ==
    /\ call'.op = "move_to_in_progress" =>
          \A f \in InDir(files, "in_progress") : f \in files'
    /\ call'.op = "forget_offer" =>
          \A f \in InDir(files, "archived") : f \in files'

\* C24: every file that was in the destination directory before
\* move_to_in_progress (in_progress) or move_to_archived (archived) is still
\* there after the call, under its name and with its content.
C24_MoveNeverOverwrites == [][C24_Step]_vars

\* C25: right after forget_offer has archived the file, a ledger constructed
\* anew from the backing file shows every record that is forgotten in memory
\* as forgotten.
C25_ForgetPersisted ==
    (LedgerUp /\ call.op = "forget_offer" /\ call.ret) =>
        LET anew == load_or_initialize(disk, now)
            inMemory == get_all_analyses(data)
            reloaded == get_all_analyses(anew.data)
        IN \A i \in 1..Len(inMemory) :
              inMemory[i].forget =>
                  /\ ~anew.raised
                  /\ i <= Len(reloaded)
                  /\ reloaded[i].file_name = inMemory[i].file_name
                  /\ reloaded[i].forget

\* C26: whenever compress_pdf on an oversized file of new reports failure,
\* at whatever step, the original file is still in new as it was and no
\* compressed_ file is left.
C26_FailedCompressLeavesOriginal ==
    \A f \in InDir(files, "new"), csize \in Sizes, cio \in IoCompress :
        LET r == compress_pdf(files, "new", f.name, csize, cio, now) IN
        (~validate_file_size(f.size) /\ ~r.ok) =>
            /\ f \in r.files
            /\ ~Exists(r.files, "new", CompressedName(f.name))

\* what a step of the ledger must satisfy for C27
C27_Step ==
    (LedgerUp /\ call'.op = "add_analysis" /\ ~call'.saved /\ ~call'.ret) =>
        data' = data

\* C27: when add_analysis returns false without having reached save(), the
\* in-memory document is as it was before the call.
C27_AddAnalysisAllOrNothing == [][C27_Step]_vars

\* C29: every listed offer that is still in new when its pass begins is
\* handed to move_to_in_progress, whatever its size, so that an oversized
\* file reaches the compression of the File Manager: no pass ends at the
\* orchestrator's own size check.
C29_OversizedHandedOn ==
    \A i \in 1..Len(run.log) :
        /\ run.log[i].op # "too_large"
        /\ (run.log[i].op = "offer" /\ i < Len(run.log)) =>
              run.log[i + 1].op = "move_to_in_progress"

----------------------------------------------------------------------------
(* Properties of a session (SpecApp) *)

\* C28: every record of the current batch names a file that is in
\* in_progress when the record is not forgotten and in archived when it is,
\* and two records that are not forgotten have different file names.
C28_RecordsNameFiles ==
    LedgerUp =>
        LET offers == get_all_analyses(data) IN
        /\ \A i \in 1..Len(offers) :
              IF offers[i].forget
              THEN Exists(files, "archived", offers[i].file_name)
              ELSE Exists(files, "in_progress", offers[i].file_name)
        /\ \A i, j \in 1..Len(offers) :
              (i # j /\ ~offers[i].forget /\ ~offers[j].forget) =>
                  offers[i].file_name # offers[j].file_name

RECURSIVE LetterCosts(_)
LetterCosts(offers) ==
    IF offers = <<>> THEN 0
    ELSE (IF Head(offers).cover_letter.has
          THEN Head(offers).cover_letter.generation_cost ELSE 0)
         + LetterCosts(Tail(offers))

RECURSIVE CountLetters(_)
CountLetters(offers) ==
    IF offers = <<>> THEN 0
    ELSE (IF Head(offers).cover_letter.has THEN 1 ELSE 0) + CountLetters(Tail(offers))

\* C30: cover_letter_costs is the sum of generation_cost over the cover
\* letters attached to the records of the ledger, and requests_count is the
\* number of records plus the number of cover letters.
C30_CostAccountingComplete ==
    LedgerUp =>
        /\ Usage.cover_letter_costs = LetterCosts(AllOffers(data.analyses))
        /\ Usage.requests_count =
              Len(AllOffers(data.analyses)) + CountLetters(AllOffers(data.analyses))

----------------------------------------------------------------------------
(* Properties of two ledger instances on one backing file (SpecTwo) *)

\* C22: right after a call of one of two ledger instances has written the
\* backing file, the file holds exactly the in-memory document of that
\* instance, and no record that only the other instance added is in it,
\* whatever the other instance wrote before.
C22_LastWriterWins ==
    (peer.last \in Instances /\ call.saved /\ call.ret) =>
        LET writer == peer.last
            other == 3 - writer
        IN /\ disk = DocFile(Doc(writer))
           /\ \A k \in 1..Len(AllOffers(disk.doc.analyses)) :
                 AllOffers(disk.doc.analyses)[k] # TwoRecord(other)

\* instance 1 added its record and wrote it, then instance 2 made a call
\* and wrote: the file is instance 2's document and lacks the record
C22_Witness ==
    /\ peer.last = 2 /\ call.saved /\ call.ret
    /\ peer.calls[1] >= 1
    /\ \E k \in 1..Len(AllOffers(data.analyses)) :
          AllOffers(data.analyses)[k] = TwoRecord(1)
    /\ disk = DocFile(peer.data)
    /\ disk # DocFile(data)

----------------------------------------------------------------------------
(* Properties of the bounded-parallel analysis (SpecParallel) *)

\* the position of file f in the returned list, 0 when it is not in it
Position(f) ==
    IF \E k \in 1..Len(par.out) : par.out[k] = f
    THEN CHOOSE k \in 1..Len(par.out) : par.out[k] = f
    ELSE 0

C21_Safe ==
    /\ par.pc = "running" =>
          /\ Cardinality(InFlight) <= par.n
          /\ par.value = par.n - Cardinality(InFlight)
    /\ par.pc = "done" =>
          /\ \A i \in 1..Len(par.tasks) : par.results[i] \in {"ok", "none"}
          /\ \A i \in 1..Len(par.tasks) :
                par.results[i] = "ok" <=> Position(par.tasks[i]) > 0
          /\ \A k \in 1..Len(par.out) : \E i \in 1..Len(par.tasks) :
                par.tasks[i] = par.out[k]
          /\ \A k, l \in 1..Len(par.out) : par.out[k] = par.out[l] => k = l
          /\ \A i, j \in 1..Len(par.tasks) :
                (i < j /\ par.results[i] = "ok" /\ par.results[j] = "ok") =>
                    Position(par.tasks[i]) < Position(par.tasks[j])

\* C21: while analyze_pdfs_parallel runs, at most max_concurrent analyses
\* hold the semaphore; every run reaches the return of gather, where every
\* submitted file has a result or None; and the returned list holds exactly
\* the files whose analysis gave a result, once each, in submission order.
C21_BoundedParallel == []C21_Safe /\ (par.pc = "running" ~> par.pc = "done")

\* three files were submitted, the second analysis failed, and the list
\* returned holds the first and the third
C21_Witness ==
    /\ par.pc = "done"
    /\ Len(par.tasks) = 3
    /\ par.results = <<"ok", "none", "ok">>
    /\ par.out = <<par.tasks[1], par.tasks[3]>>
    /\ par.tasks[1] > par.tasks[3]

====
